---- MODULE Spec2Model ----
(***************************************************************************)
(* Model of the location loader (data/load_locations_json.py) and the      *)
(* location saver (data/save_locations_json.py).                           *)
(*                                                                         *)
(* Python values are records tagged by the field t, JSON text is a tree of *)
(* tokens tagged by the field j, and json.load / json.dump are the         *)
(* conversions between the two.  A float is held in tenths of a degree     *)
(* (Deg(90) is 90.0); nan and the infinities are floats with no value.     *)
(***************************************************************************)
EXTENDS Integers, Sequences, FiniteSets, TLC

VARIABLES
    files,      \* the file system: path -> content of each existing file
    dirs,       \* directory name -> "absent" | "dir" | "file" | "readonly"
    now,        \* the wall clock, in ticks of half a second
    last,       \* the most recent call: operation, arguments, outcome, log
    saves       \* history: the two latest successful saves, the last one last

vars == <<files, dirs, now, last, saves>>

---------------------------------------------------------------------------
(* Bounds of the model *)

\* the most coordinates an input file holds, over its three lists
MaxCoords == 2
\* the clock stops after this many ticks
MaxTicks == 2

---------------------------------------------------------------------------
(* Python values *)

Deg(n) == n * 10

PyNone == [t |-> "None"]
PyBool(b) == [t |-> "bool", b |-> b]
PyInt(n) == [t |-> "int", v |-> n]
\* an int too large for a double, such as 10**400
PyHugeInt == [t |-> "int", exp10 |-> 400]
PyFloat(v) == [t |-> "float", v |-> v]
PyNaN == [t |-> "float", special |-> "nan"]
PyInf == [t |-> "float", special |-> "inf"]
PyStr(s) == [t |-> "str", s |-> s]
PyList(items) == [t |-> "list", items |-> items]
PyTuple(items) == [t |-> "tuple", items |-> items]
PySet(items) == [t |-> "set", items |-> items]
PyDict(m) == [t |-> "dict", m |-> m]

EmptyMap == [k \in {} |-> PyNone]

IsFinite(x) == x.t = "float" /\ "v" \in DOMAIN x
IsSmallInt(x) == x.t = "int" /\ "v" \in DOMAIN x

\* the outcome of an expression: a value, or an exception
Ok(v) == [ok |-> TRUE, val |-> v]
Fail(e) == [ok |-> FALSE, exc |-> e]
Exc(type, msg, key, index, detail) ==
    [type |-> type, msg |-> msg, key |-> key, index |-> index, detail |-> detail]
NoExc == Exc("none", "", "", -1, "")
NoValue == [t |-> "novalue"]

---------------------------------------------------------------------------
(* JSON text, and what the json module does with it *)

JNull == [j |-> "null"]
JBool(b) == [j |-> "bool", b |-> b]
JIntLit(n) == [j |-> "int", v |-> n]
JHugeIntLit == [j |-> "int", exp10 |-> 400]
JRealLit(v) == [j |-> "real", v |-> v]
JNaN == [j |-> "NaN"]
JInfinity == [j |-> "Infinity"]
JString(s) == [j |-> "string", s |-> s]
JArray(items) == [j |-> "array", items |-> items]
JObject(m) == [j |-> "object", m |-> m]

\* what a file holds: well-formed JSON text, or text no JSON parser accepts
\* (anything else, and any proper prefix of a dumped document)
JsonText(doc) == [k |-> "json", doc |-> doc]
Truncated == [k |-> "truncated"]

\* json.load on well-formed text: object -> dict, array -> list, an integer
\* literal -> int, a literal with a fraction -> float, NaN / Infinity -> float
RECURSIVE JsonDecode(_)
JsonDecode(x) ==
    CASE x.j = "null" -> PyNone
      [] x.j = "bool" -> PyBool(x.b)
      [] x.j = "int" -> IF "v" \in DOMAIN x THEN PyInt(x.v) ELSE PyHugeInt
      [] x.j = "real" -> PyFloat(x.v)
      [] x.j = "NaN" -> PyNaN
      [] x.j = "Infinity" -> PyInf
      [] x.j = "string" -> PyStr(x.s)
      [] x.j = "array" ->
            PyList([i \in 1..Len(x.items) |-> JsonDecode(x.items[i])])
      [] x.j = "object" ->
            PyDict([k \in DOMAIN x.m |-> JsonDecode(x.m[k])])

\* whether json.dump can encode the value (a set is not JSON serializable)
RECURSIVE Serializable(_)
Serializable(x) ==
    CASE x.t \in {"None", "bool", "int", "float", "str"} -> TRUE
      [] x.t \in {"list", "tuple"} ->
            \A i \in 1..Len(x.items) : Serializable(x.items[i])
      [] x.t = "dict" -> \A k \in DOMAIN x.m : Serializable(x.m[k])
      [] OTHER -> FALSE

\* a float written with its fraction cut off
FloatRepr_truncating(x) ==
    IF IsFinite(x) THEN JIntLit(x.v \div 10)
    ELSE IF x.special = "nan" THEN JNaN ELSE JInfinity

\* float.__repr__, as json.dump writes a float: the shortest text that reads
\* back as the same double
FloatRepr(x) ==
    IF IsFinite(x) THEN JRealLit(x.v)
    ELSE IF x.special = "nan" THEN JNaN ELSE JInfinity

\* json.dump: dict -> object, list and tuple -> array, int -> integer literal
RECURSIVE JsonEncode(_)
JsonEncode(x) ==
    CASE x.t = "None" -> JNull
      [] x.t = "bool" -> JBool(x.b)
      [] x.t = "int" -> IF IsSmallInt(x) THEN JIntLit(x.v) ELSE JHugeIntLit
      [] x.t = "float" -> FloatRepr(x)
      [] x.t = "str" -> JString(x.s)
      [] x.t \in {"list", "tuple"} ->
            JArray([i \in 1..Len(x.items) |-> JsonEncode(x.items[i])])
      [] x.t = "dict" ->
            JObject([k \in DOMAIN x.m |-> JsonEncode(x.m[k])])

---------------------------------------------------------------------------
(* float(), len() and truthiness *)

\* the strings of the model that float() parses, with their values in tenths
NumericStrings ==
    ("12" :> Deg(12)) @@ ("-90.0" :> Deg(-90)) @@ ("45.5" :> Deg(45) + 5)

\* float(x)
PyFloatOf(x) ==
    CASE x.t = "float" -> Ok(x)
      [] x.t = "int" ->
            IF IsSmallInt(x) THEN Ok(PyFloat(Deg(x.v)))
            ELSE Fail(Exc("OverflowError", "int too large to convert to float",
                          "", -1, ""))
      [] x.t = "bool" -> Ok(PyFloat(Deg(IF x.b THEN 1 ELSE 0)))
      [] x.t = "str" ->
            IF x.s \in DOMAIN NumericStrings THEN Ok(PyFloat(NumericStrings[x.s]))
            ELSE Fail(Exc("ValueError", "could not convert string to float",
                          "", -1, ""))
      [] OTHER ->
            Fail(Exc("TypeError", "float() argument must be a string or a real number",
                     "", -1, ""))

\* the upper bound forgotten
Between_lower_only(lo, x, hi) == IsFinite(x) /\ Deg(lo) <= x.v

\* lo <= x <= hi on floats: false for nan, and for the infinities
Between(lo, x, hi) == IsFinite(x) /\ Deg(lo) <= x.v /\ x.v <= Deg(hi)

\* len(x)
PyLen(x) ==
    CASE x.t \in {"list", "tuple", "set"} -> Ok(Len(x.items))
      [] x.t = "str" -> Ok(Len(x.s))
      [] x.t = "dict" -> Ok(Cardinality(DOMAIN x.m))
      [] OTHER -> Fail(Exc("TypeError", "object has no len()", "", -1, ""))

\* `is None` in the place of `not`
Falsy_none_only(x) == x.t = "None"

\* not x
Falsy(x) ==
    CASE x.t = "None" -> TRUE
      [] x.t = "bool" -> ~x.b
      [] x.t = "int" -> IsSmallInt(x) /\ x.v = 0
      [] x.t = "float" -> IsFinite(x) /\ x.v = 0
      [] x.t = "str" -> x.s = ""
      [] x.t \in {"list", "tuple", "set"} -> x.items = <<>>
      [] x.t = "dict" -> DOMAIN x.m = {}
      [] OTHER -> FALSE

---------------------------------------------------------------------------
(* data/load_locations_json.py *)

Log(level, msg, key) == [level |-> level, msg |-> msg, key |-> key]

Returned(value, log) ==
    [status |-> "returned", value |-> value, exc |-> NoExc, log |-> log]
Raised(exc, log) ==
    [status |-> "raised", value |-> NoValue, exc |-> exc, log |-> log]

required_keys == <<"logistics_centers", "sales_outlets", "customers">>

\* lines 89-104: one element of a location list, at zero-based index i
ValidateLocation(loc, key, i) ==
    IF ~(loc.t \in {"list", "tuple"}) \/ Len(loc.items) # 2
    THEN Fail(Exc("ValueError", "Location must be [latitude, longitude]", key, i, ""))
    ELSE
    LET lat == PyFloatOf(loc.items[1])
        lon == PyFloatOf(loc.items[2])
        \* except (ValueError, TypeError): anything else passes through as it is
        Wrap(e) == IF e.type \in {"ValueError", "TypeError"}
                   THEN Exc("ValueError", "Invalid coordinate values", key, i, e.msg)
                   ELSE e
    IN  IF ~lat.ok THEN Fail(Wrap(lat.exc))
        ELSE IF ~lon.ok THEN Fail(Wrap(lon.exc))
        ELSE IF ~Between(-90, lat.val, 90)
        THEN Fail(Wrap(Exc("ValueError", "Invalid latitude", key, i, "")))
        ELSE IF ~Between(-180, lon.val, 180)
        THEN Fail(Wrap(Exc("ValueError", "Invalid longitude", key, i, "")))
        ELSE Ok(PyList(<<lat.val, lon.val>>))

\* lines 87-106: the elements in order; the first bad one raises
ValidateList(location_list, key) ==
    LET n == Len(location_list.items)
        each == [i \in 1..n |-> ValidateLocation(location_list.items[i], key, i - 1)]
        bad == {i \in 1..n : ~each[i].ok}
    IN  IF bad # {}
        THEN Fail(each[CHOOSE i \in bad : \A k \in bad : i <= k].exc)
        ELSE Ok(PyList([i \in 1..n |-> each[i].val]))

\* locations[key] with no check that the key is there
ProcessKey_missing_raises(locations, key) ==
    IF key \notin DOMAIN locations.m
    THEN [ok |-> FALSE, exc |-> Exc("KeyError", "", key, -1, ""), warn |-> FALSE]
    ELSE IF locations.m[key].t # "list"
    THEN [ok |-> FALSE, exc |-> Exc("ValueError", "must be a list", key, -1, ""),
          warn |-> FALSE]
    ELSE LET r == ValidateList(locations.m[key], key)
         IN  IF r.ok THEN [ok |-> TRUE, val |-> r.val, warn |-> FALSE]
             ELSE [ok |-> FALSE, exc |-> r.exc, warn |-> FALSE]

\* lines 78-106: one key of 'locations'; warn is whether the key was missing
ProcessKey(locations, key) ==
    IF key \notin DOMAIN locations.m
    THEN [ok |-> TRUE, val |-> PyList(<<>>), warn |-> TRUE]
    ELSE IF locations.m[key].t # "list"
    THEN [ok |-> FALSE, exc |-> Exc("ValueError", "must be a list", key, -1, ""),
          warn |-> FALSE]
    ELSE LET r == ValidateList(locations.m[key], key)
         IN  IF r.ok THEN [ok |-> TRUE, val |-> r.val, warn |-> FALSE]
             ELSE [ok |-> FALSE, exc |-> r.exc, warn |-> FALSE]

\* lines 77-106: the loop over required_keys, from the k-th key on, with the
\* result and the log built so far; it stops at the first key that raises
RECURSIVE ProcessKeys(_, _, _, _)
ProcessKeys(locations, k, result, log) ==
    IF k > Len(required_keys) THEN [ok |-> TRUE, result |-> result, log |-> log]
    ELSE
    LET key == required_keys[k]
        r == ProcessKey(locations, key)
        log2 == IF r.warn
                THEN Append(log, Log("WARNING", "Missing key, using empty list", key))
                ELSE log
    IN  IF ~r.ok THEN [ok |-> FALSE, exc |-> r.exc, log |-> log2]
        ELSE ProcessKeys(locations, k + 1, (key :> r.val) @@ result, log2)

\* lines 109-117: the summary, then the minimum requirement
CheckMinimum(result, log) ==
    LET log2 == Append(log, [level |-> "INFO", msg |-> "Loaded", key |-> "",
                             counts |-> [k \in DOMAIN result |-> Len(result[k].items)]])
    IN  IF Len(result["logistics_centers"].items) = 0
        THEN Raised(Exc("ValueError", "At least one logistics center is required",
                        "", -1, ""), log2)
        ELSE Returned(PyDict(result), log2)

\* lines 47-117
load_locations_from_json(fs, filepath) ==
    LET log0 == <<Log("INFO", "Loading locations from JSON file", "")>>
    IN  IF filepath \notin DOMAIN fs
        THEN Raised(Exc("FileNotFoundError", "Location file not found", "", -1, ""),
                    Append(log0, Log("ERROR", "File not found", "")))
        ELSE IF fs[filepath].k # "json"
        THEN Raised(Exc("JSONDecodeError", "Invalid JSON format in file", "", -1, ""),
                    Append(log0, Log("ERROR", "Invalid JSON in file", "")))
        ELSE
        LET data == JsonDecode(fs[filepath].doc)
        IN  IF data.t # "dict"
            THEN Raised(Exc("ValueError", "JSON root must be a dictionary", "", -1, ""),
                        log0)
            ELSE IF "locations" \notin DOMAIN data.m
            THEN Raised(Exc("ValueError", "JSON must contain 'locations' key", "", -1, ""),
                        log0)
            ELSE IF data.m["locations"].t # "dict"
            THEN Raised(Exc("ValueError", "'locations' must be a dictionary", "", -1, ""),
                        log0)
            ELSE
            LET r == ProcessKeys(data.m["locations"], 1, EmptyMap, log0)
            IN  IF ~r.ok THEN Raised(r.exc, r.log)
                ELSE CheckMinimum(r.result, r.log)

\* isinstance(..., (list, tuple)) in the place of isinstance(..., list)
validate_locations_structure_tuples(locations) ==
    IF locations.t # "dict" THEN FALSE
    ELSE \A i \in 1..Len(required_keys) :
            /\ required_keys[i] \in DOMAIN locations.m
            /\ locations.m[required_keys[i]].t \in {"list", "tuple"}

\* lines 130-140
validate_locations_structure(locations) ==
    IF locations.t # "dict" THEN FALSE
    ELSE \A i \in 1..Len(required_keys) :
            /\ required_keys[i] \in DOMAIN locations.m
            /\ locations.m[required_keys[i]].t = "list"

\* len(locations[key]) in the place of len(locations.get(key, []))
LenOfEntry_no_default(locations, key) ==
    IF locations.t # "dict"
    THEN Fail(Exc("AttributeError", "object has no attribute 'get'", "", -1, ""))
    ELSE IF key \notin DOMAIN locations.m
    THEN Fail(Exc("KeyError", "", key, -1, ""))
    ELSE PyLen(locations.m[key])

\* len(locations.get(key, [])), as get_location_counts and the saver's metadata
\* both compute it
LenOfEntry(locations, key) ==
    IF locations.t # "dict"
    THEN Fail(Exc("AttributeError", "object has no attribute 'get'", "", -1, ""))
    ELSE PyLen(IF key \in DOMAIN locations.m THEN locations.m[key] ELSE PyList(<<>>))

\* lines 153-157: the three counts, evaluated in order
get_location_counts(locations) ==
    LET a == LenOfEntry(locations, "logistics_centers")
        b == LenOfEntry(locations, "sales_outlets")
        c == LenOfEntry(locations, "customers")
    IN  IF ~a.ok THEN Raised(a.exc, <<>>)
        ELSE IF ~b.ok THEN Raised(b.exc, <<>>)
        ELSE IF ~c.ok THEN Raised(c.exc, <<>>)
        ELSE Returned(PyDict(("num_logistics_centers" :> PyInt(a.val))
                             @@ ("num_sales_outlets" :> PyInt(b.val))
                             @@ ("num_customers" :> PyInt(c.val))), <<>>)

---------------------------------------------------------------------------
(* data/save_locations_json.py *)

\* a path: a directory and a file name (os.path.join)
FilePath(dir, name) == [dir |-> dir, name |-> name]

\* a file name that keeps the fraction of the second
Strftime_with_fraction(t) == t

\* datetime.now().strftime('%Y%m%d_%H%M%S'): the clock cut to whole seconds
\* (two ticks to the second)
Strftime(t) == t \div 2

\* datetime.now().isoformat(): the clock at its full resolution
IsoFormat(t) == ToString(t)

\* lines 33-41: the envelope, given the three counts (the clock is read a
\* second time here; no tick falls between the two readings of one call)
DataToSave(generated_locations, t, a, b, c) ==
    PyDict(("metadata" :>
                PyDict(("timestamp" :> PyStr(IsoFormat(t)))
                       @@ ("num_logistics_centers" :> PyInt(a))
                       @@ ("num_sales_outlets" :> PyInt(b))
                       @@ ("num_customers" :> PyInt(c))))
           @@ ("locations" :> generated_locations))

SaveResult(out, fs, ds) == [out |-> out, files |-> fs, dirs |-> ds]

SaveError(e) == Returned(PyNone, <<Log("ERROR", "Error saving locations to JSON", e)>>)

\* lines 19-52, in the file system fs with the directories ds at clock t
save_locations_json(fs, ds, t, generated_locations, output_dir) ==
    IF Falsy(generated_locations)
    THEN SaveResult(Returned(PyNone, <<Log("WARNING", "No locations to save.", "")>>),
                    fs, ds)
    \* line 24, outside the try: os.makedirs on a path that is a regular file
    ELSE IF ds[output_dir] = "file"
    THEN SaveResult(Raised(Exc("FileExistsError", "File exists", "", -1, ""), <<>>),
                    fs, ds)
    ELSE
    LET ds2 == [ds EXCEPT ![output_dir] = IF @ = "absent" THEN "dir" ELSE @]
        filepath == FilePath(output_dir, <<"locations_", Strftime(t)>>)
        a == LenOfEntry(generated_locations, "logistics_centers")
        b == LenOfEntry(generated_locations, "sales_outlets")
        c == LenOfEntry(generated_locations, "customers")
    IN  IF ~a.ok THEN SaveResult(SaveError(a.exc.type), fs, ds2)
        ELSE IF ~b.ok THEN SaveResult(SaveError(b.exc.type), fs, ds2)
        ELSE IF ~c.ok THEN SaveResult(SaveError(c.exc.type), fs, ds2)
        \* line 44: open(filepath, 'w') in a directory that cannot be written
        ELSE IF ds2[output_dir] = "readonly"
        THEN SaveResult(SaveError("PermissionError"), fs, ds2)
        ELSE
        LET data_to_save == DataToSave(generated_locations, t, a.val, b.val, c.val)
        IN  \* line 45: the file is open (created or cut to nothing) and json.dump
            \* stops part-way, leaving a prefix of the document (an OSError
            \* during the write ends the same way)
            IF ~Serializable(data_to_save)
            THEN SaveResult(SaveError("TypeError"), (filepath :> Truncated) @@ fs, ds2)
            ELSE SaveResult(
                    Returned(filepath, <<Log("INFO", "Locations saved to", "")>>),
                    (filepath :> JsonText(JsonEncode(data_to_save))) @@ fs, ds2)

---------------------------------------------------------------------------
(* The inputs of the model *)

JPair(x, y) == JArray(<<x, y>>)

\* what an element of a location list may be in a file
Elems ==
    { JPair(JRealLit(Deg(45) + 5), JRealLit(Deg(-120))),  \* [45.5, -120.0]
      JPair(JIntLit(90), JIntLit(-180)),                  \* [90, -180]
      JPair(JString("-90.0"), JBool(TRUE)),               \* ["-90.0", true]
      JPair(JIntLit(91), JIntLit(0)),                     \* [91, 0]
      JPair(JRealLit(0), JRealLit(Deg(-180) - 1)),        \* [0.0, -180.1]
      JPair(JString("abc"), JIntLit(0)),                  \* ["abc", 0]
      JPair(JNull, JIntLit(0)),                           \* [null, 0]
      JPair(JHugeIntLit, JIntLit(0)),                     \* [1000...000, 0]
      JPair(JNaN, JIntLit(0)),                            \* [NaN, 0]
      JArray(<<JIntLit(1)>>) }                            \* [1]

JAbsent == [j |-> "absent"]

\* what a key of 'locations' may be when it takes n of the file's coordinates
\* (something that is no list counts as one)
KeyVals(n) ==
    {JArray(items) : items \in [1..n -> Elems]}
    \cup (IF n = 0 THEN {JAbsent} ELSE {})
    \cup (IF n = 1 THEN {JString("not-a-list")} ELSE {})

\* the object with the keys that are not absent
JObjectOf(m) == JObject([k \in {x \in DOMAIN m : m[x] # JAbsent} |-> m[k]])

LocationsOf(lc, so, cu) ==
    JObjectOf(("logistics_centers" :> lc) @@ ("sales_outlets" :> so)
              @@ ("customers" :> cu))

\* how many elements each of the three lists has
Splits ==
    {n \in (0..MaxCoords) \X (0..MaxCoords) \X (0..MaxCoords) :
        n[1] + n[2] + n[3] <= MaxCoords}

LocationsObjects ==
    UNION { {LocationsOf(lc, so, cu) :
                lc \in KeyVals(n[1]), so \in KeyVals(n[2]), cu \in KeyVals(n[3])} :
            n \in Splits }

Envelope(locations) == JsonText(JObject("locations" :> locations))

ValidPair == JPair(JRealLit(Deg(45) + 5), JRealLit(Deg(-120)))

\* files whose root or whose 'locations' is off, or that hold more than the
\* three keys
OddFiles ==
    { Truncated,
      JsonText(JArray(<<>>)),
      JsonText(JObject("metadata" :> JObject(EmptyMap))),
      JsonText(JObject("locations" :> JArray(<<ValidPair>>))),
      Envelope(JObject(("logistics_centers" :> JArray(<<ValidPair>>))
                       @@ ("customers" :> JObject(EmptyMap)))),
      Envelope(JObject(("logistics_centers" :> JArray(<<ValidPair>>))
                       @@ ("depots" :> JArray(<<ValidPair>>)))) }

InputFiles == {Envelope(o) : o \in LocationsObjects} \cup OddFiles

\* the input files of the specification of the whole program
FewInputFiles ==
    { Envelope(LocationsOf(JArray(<<ValidPair>>), JAbsent,
                           JArray(<<JPair(JIntLit(90), JIntLit(-180))>>))),
      Truncated }

InputPath == FilePath("data", <<"custom_locations">>)
MissingPath == FilePath("data", <<"no_such_file">>)

Dirs == {"output/generated_data", "blocked", "readonly"}

\* what a caller may hand to the saver, the validator and the counter
PyPair(x, y) == PyList(<<PyFloat(x), PyFloat(y)>>)

Generated ==
    { PyDict(("logistics_centers" :> PyList(<<PyPair(Deg(10), Deg(20))>>))
             @@ ("sales_outlets" :> PyList(<<>>))
             @@ ("customers" :> PyList(<<PyPair(Deg(-5), Deg(5))>>))),
      PyDict("logistics_centers" :>
                PyTuple(<<PyTuple(<<PyFloat(Deg(45) + 5), PyInt(2)>>)>>)),
      PyDict(("logistics_centers" :> PyList(<<PyPair(Deg(10), Deg(20))>>))
             @@ ("customers" :> PySet(<<PyInt(1), PyInt(2)>>))),
      PyList(<<PyPair(Deg(10), Deg(20))>>),
      PyDict(EmptyMap),
      PyNone }

\* what a key of a candidate may hold
EntryVals ==
    { JAbsent, PyList(<<>>), PyList(<<PyPair(Deg(10), Deg(20))>>),
      PyList(<<PyStr("x"), PyNone>>), PyTuple(<<>>), PyStr("not-a-list"),
      PyNone }

PyDictOf(m) == PyDict([k \in {x \in DOMAIN m : m[x] # JAbsent} |-> m[k]])

Candidates ==
    { PyDictOf(("logistics_centers" :> lc) @@ ("sales_outlets" :> so)
               @@ ("customers" :> cu)) :
        lc \in EntryVals, so \in EntryVals, cu \in EntryVals }
    \cup {PyNone, PyList(<<>>), PyStr("logistics_centers"), PyInt(0)}

---------------------------------------------------------------------------
(* The state machine *)

Call(op, arg, dir, out) ==
    [op |-> op, arg |-> arg, dir |-> dir, status |-> out.status,
     value |-> out.value, exc |-> out.exc, log |-> out.log]

NoCall == Call("none", NoValue, "", Returned(NoValue, <<>>))

InitDirs ==
    ("output/generated_data" :> "absent") @@ ("blocked" :> "file")
    @@ ("readonly" :> "readonly")

InitWith(inputs) ==
    /\ files \in {(InputPath :> content) : content \in inputs}
    /\ dirs = InitDirs
    /\ now = 0
    /\ last = NoCall
    /\ saves = <<>>

Init == InitWith(FewInputFiles)

Load(filepath) ==
    /\ last' = Call("load", filepath, "", load_locations_from_json(files, filepath))
    /\ UNCHANGED <<files, dirs, now, saves>>

Save(generated_locations, output_dir) ==
    LET r == save_locations_json(files, dirs, now, generated_locations, output_dir)
        saved == r.out.status = "returned" /\ r.out.value # PyNone
        entry == [path |-> r.out.value, dir |-> output_dir,
                  input |-> generated_locations, tick |-> now]
    IN  /\ last' = Call("save", generated_locations, output_dir, r.out)
        /\ files' = r.files
        /\ dirs' = r.dirs
        /\ saves' = IF ~saved THEN saves
                    ELSE IF saves = <<>> THEN <<entry>>
                    ELSE <<saves[Len(saves)], entry>>
        /\ UNCHANGED now

Validate(candidate) ==
    /\ last' = Call("validate", candidate, "",
                    Returned(PyBool(validate_locations_structure(candidate)), <<>>))
    /\ UNCHANGED <<files, dirs, now, saves>>

Count(locations) ==
    /\ last' = Call("count", locations, "", get_location_counts(locations))
    /\ UNCHANGED <<files, dirs, now, saves>>

Tick ==
    /\ now < MaxTicks
    /\ now' = now + 1
    /\ UNCHANGED <<files, dirs, last, saves>>

LoadPaths == DOMAIN files \cup {MissingPath}

Loaded == last.op = "load" /\ last.status = "returned"

\* the validator and the counter are handed what the loader just returned, or
\* something that is no location set
FewCandidates ==
    {PyNone, PyDict("customers" :> PyNone)} \cup (IF Loaded THEN {last.value} ELSE {})

Next ==
    \/ \E filepath \in LoadPaths : Load(filepath)
    \/ \E gl \in Generated, d \in Dirs : Save(gl, d)
    \/ \E c \in FewCandidates : Validate(c)
    \/ \E c \in FewCandidates : Count(c)
    \/ Tick

Spec == Init /\ [][Next]_vars

\* the loader over every input file of the model, and the way back through
\* the saver
InitLoader == InitWith(InputFiles)

SaveLoaded(output_dir) == Loaded /\ Save(last.value, output_dir)

NextLoader ==
    \/ \E filepath \in LoadPaths : Load(filepath)
    \/ \E d \in Dirs : SaveLoaded(d)

LoaderSpec == InitLoader /\ [][NextLoader]_vars

\* the validator and the counter over every candidate of the model
NextPure ==
    \/ \E c \in Candidates : Validate(c)
    \/ \E c \in Candidates : Count(c)

PureSpec == Init /\ [][NextPure]_vars

---------------------------------------------------------------------------
(* What the claims speak of, read off the input file and the call *)

LC == "logistics_centers"
SO == "sales_outlets"
CU == "customers"
ThreeKeys == {LC, SO, CU}

IsLoad == last.op = "load"
LoadReturned == IsLoad /\ last.status = "returned"

\* the file the last load read holds JSON whose root has an object 'locations'
SrcHasLocations ==
    /\ IsLoad
    /\ last.arg \in DOMAIN files
    /\ files[last.arg].k = "json"
    /\ files[last.arg].doc.j = "object"
    /\ "locations" \in DOMAIN files[last.arg].doc.m
    /\ files[last.arg].doc.m["locations"].j = "object"

SrcLoc == files[last.arg].doc.m["locations"].m
SrcAbsent(key) == key \notin DOMAIN SrcLoc
SrcIsList(key) == key \in DOMAIN SrcLoc /\ SrcLoc[key].j = "array"
SrcItems(key) == IF SrcIsList(key) THEN SrcLoc[key].items ELSE <<>>

\* a JSON number and the real it denotes, in tenths; an integer literal of
\* hundreds of digits is a number beyond every range
TokIsNumber(x) == x.j \in {"int", "real"}
TokBeyond(x, bound) ==
    /\ TokIsNumber(x)
    /\ \/ "v" \notin DOMAIN x
       \/ (x.j = "int" /\ (x.v > bound \/ x.v < -bound))
       \/ (x.j = "real" /\ (x.v > bound * 10 \/ x.v < -(bound * 10)))
TokWithin(x, bound) == TokIsNumber(x) /\ ~TokBeyond(x, bound)
\* a value that is no number at all
TokNonNumeric(x) ==
    \/ x.j \in {"null", "array", "object", "NaN", "Infinity"}
    \/ (x.j = "string" /\ x.s \notin DOMAIN NumericStrings)

IsPairTok(e) == e.j = "array" /\ Len(e.items) = 2
\* [lat, lon] with both numbers in range
ElemValid(e) == IsPairTok(e) /\ TokWithin(e.items[1], 90) /\ TokWithin(e.items[2], 180)
\* an element the claims call invalid
ElemInvalid(e) ==
    \/ ~IsPairTok(e)
    \/ TokNonNumeric(e.items[1]) \/ TokNonNumeric(e.items[2])
    \/ TokBeyond(e.items[1], 90) \/ TokBeyond(e.items[2], 180)
ElemOutOfRange(e) ==
    IsPairTok(e) /\ (TokBeyond(e.items[1], 90) \/ TokBeyond(e.items[2], 180))

KeyValid(key) ==
    SrcIsList(key) /\ \A i \in 1..Len(SrcItems(key)) : ElemValid(SrcItems(key)[i])
KeyInvalid(key) ==
    /\ ~SrcAbsent(key)
    /\ \/ ~SrcIsList(key)
       \/ \E i \in 1..Len(SrcItems(key)) : ElemInvalid(SrcItems(key)[i])

Warned(key) ==
    \E i \in 1..Len(last.log) : last.log[i].level = "WARNING" /\ last.log[i].key = key

\* the float a coordinate of the file reads as
AsFloat(tok) == PyFloatOf(JsonDecode(tok)).val

\* a value with its tuples read as lists, as JSON has arrays only
RECURSIVE AsLists(_)
AsLists(x) ==
    CASE x.t \in {"list", "tuple"} ->
            PyList([i \in 1..Len(x.items) |-> AsLists(x.items[i])])
      [] x.t = "dict" -> PyDict([k \in DOMAIN x.m |-> AsLists(x.m[k])])
      [] OTHER -> x

SameSecond(t1, t2) == t1 \div 2 = t2 \div 2

---------------------------------------------------------------------------
(* The claims *)

\* C1: save_locations_json never propagates an exception: for every non-empty
\* locations argument and every output directory the call returns (None when
\* the directory cannot be made or the file cannot be written), it never raises.
C1_SaveNeverRaises ==
    (last.op = "save" /\ ~(last.arg \in {PyNone, PyDict(EmptyMap)}))
        => (last.status = "returned")

\* C2: whenever the loader returns, the result has exactly the three keys,
\* logistics_centers is not empty, every element is a pair of finite floats
\* with -90 <= lat <= 90 and -180 <= lon <= 180, and every list holds the
\* file's elements in the file's order; a file whose logistics_centers is []
\* or absent, or that holds an out-of-range coordinate, yields no result.
C2_LoadResultIsValid ==
    /\ LoadReturned =>
        /\ last.value.t = "dict"
        /\ DOMAIN last.value.m = ThreeKeys
        /\ Len(last.value.m[LC].items) >= 1
        /\ \A key \in ThreeKeys :
            /\ last.value.m[key].t = "list"
            /\ Len(last.value.m[key].items) = Len(SrcItems(key))
            /\ \A i \in 1..Len(last.value.m[key].items) :
                LET loc == last.value.m[key].items[i]
                IN  /\ loc.t = "list" /\ Len(loc.items) = 2
                    /\ IsFinite(loc.items[1]) /\ IsFinite(loc.items[2])
                    /\ -900 <= loc.items[1].v /\ loc.items[1].v <= 900
                    /\ -1800 <= loc.items[2].v /\ loc.items[2].v <= 1800
                    /\ loc.items[1] = AsFloat(SrcItems(key)[i].items[1])
                    /\ loc.items[2] = AsFloat(SrcItems(key)[i].items[2])
    /\ (SrcHasLocations
        /\ \/ SrcItems(LC) = <<>>
           \/ \E key \in ThreeKeys : \E i \in 1..Len(SrcItems(key)) :
                ElemOutOfRange(SrcItems(key)[i]))
        => last.status = "raised"

\* C2 witness: a load returned two lists that are not empty, one element of
\* which had to be converted from an integer at the edge of the range
C2_Witness ==
    /\ LoadReturned
    /\ Len(last.value.m[LC].items) >= 1
    /\ Len(last.value.m[CU].items) >= 1
    /\ last.value.m[LC].items[1] # last.value.m[CU].items[1]
    /\ \E i \in 1..Len(SrcItems(LC)) : SrcItems(LC)[i] = JPair(JIntLit(90), JIntLit(-180))

\* C3: a file the loader accepts, saved and loaded again from the path the
\* saver returned, gives a result equal to the first load's result.
C3_RoundTrip ==
    (LoadReturned /\ saves # <<>> /\ last.arg = saves[Len(saves)].path)
        => last.value = saves[Len(saves)].input

\* C3 witness: the file written from a loaded result that holds 45.5 and a
\* value read from a string was loaded back
C3_Witness ==
    /\ LoadReturned /\ saves # <<>> /\ last.arg = saves[Len(saves)].path
    /\ last.arg # InputPath
    /\ Len(last.value.m[LC].items) = 2
    /\ last.value.m[LC].items[1] = PyList(<<PyFloat(455), PyFloat(-1200)>>)
    /\ last.value.m[LC].items[2] = PyList(<<PyFloat(-900), PyFloat(10)>>)

\* C4: with logistics_centers empty or absent and sales_outlets or customers
\* invalid (not a list, an element that is no pair, a value that is no number
\* or out of range), the error raised names the invalid key and is never the
\* 'at least one logistics center' error.
C4_InvalidKeyReportedFirst ==
    (SrcHasLocations
     /\ (SrcAbsent(LC) \/ (SrcIsList(LC) /\ SrcItems(LC) = <<>>))
     /\ (KeyInvalid(SO) \/ KeyInvalid(CU)))
        => /\ last.status = "raised"
           /\ last.exc.msg # "At least one logistics center is required"
           /\ last.exc.key = (IF KeyInvalid(SO) THEN SO ELSE CU)

\* C5: a key missing from 'locations' is never itself an error: when
\* logistics_centers is a non-empty list of valid coordinates, sales_outlets
\* and/or customers is absent and whichever of the two is present is a list of
\* valid coordinates, the loader returns, with an empty list and a warning for
\* each absent key; every failure names a key that is present, and comes with
\* no result.
C5_MissingKeysRecovered ==
    /\ (SrcHasLocations
        /\ KeyValid(LC) /\ SrcItems(LC) # <<>>
        /\ (SrcAbsent(SO) \/ KeyValid(SO))
        /\ (SrcAbsent(CU) \/ KeyValid(CU))
        /\ (SrcAbsent(SO) \/ SrcAbsent(CU)))
        => /\ last.status = "returned"
           /\ \A key \in {SO, CU} :
                SrcAbsent(key) => (last.value.m[key] = PyList(<<>>) /\ Warned(key))
    /\ (SrcHasLocations /\ last.status = "raised")
        => /\ last.value = NoValue
           /\ last.exc.key # "" => ~SrcAbsent(last.exc.key)

\* C5 witness: a file with valid logistics_centers and customers and no
\* sales_outlets was loaded
C5_Witness ==
    /\ SrcHasLocations /\ last.status = "returned"
    /\ KeyValid(LC) /\ SrcItems(LC) # <<>>
    /\ SrcAbsent(SO) /\ KeyValid(CU) /\ SrcItems(CU) # <<>>
    /\ last.value.m[SO] = PyList(<<>>) /\ Warned(SO) /\ ~Warned(CU)

\* C6: two successful saves in a row into the same directory within the same
\* wall-clock second return the same path; afterwards that one file holds the
\* second call's locations, and it is the only file of that second.
C6_SameSecondOverwrites ==
    (/\ last.op = "save" /\ last.status = "returned" /\ last.value # PyNone
     /\ Len(saves) >= 2
     /\ saves[Len(saves) - 1].dir = saves[Len(saves)].dir
     /\ SameSecond(saves[Len(saves) - 1].tick, saves[Len(saves)].tick))
        => LET first == saves[Len(saves) - 1]
               second == saves[Len(saves)]
           IN  /\ first.path = second.path
               /\ last.value = second.path
               /\ files[second.path].k = "json"
               /\ JsonDecode(files[second.path].doc).m["locations"]
                    = AsLists(second.input)
               /\ Cardinality({p \in DOMAIN files :
                                /\ p.dir = second.dir
                                /\ p.name = <<"locations_", second.tick \div 2>>}) = 1

\* C6 witness: the second of two saves of different locations, half a second
\* apart within one second, has returned
C6_Witness ==
    /\ last.op = "save" /\ last.status = "returned" /\ last.value # PyNone
    /\ Len(saves) >= 2
    /\ saves[Len(saves) - 1].dir = saves[Len(saves)].dir
    /\ saves[Len(saves) - 1].tick = 0 /\ saves[Len(saves)].tick = 1
    /\ AsLists(saves[Len(saves) - 1].input) # AsLists(saves[Len(saves)].input)

\* C7: a save of {} or None returns None, logs a warning and leaves the file
\* system as it was: no file is written and the output directory is not made.
C7_NothingToSave ==
    [][(last'.op = "save" /\ last'.arg \in {PyNone, PyDict(EmptyMap)})
        => /\ last'.status = "returned" /\ last'.value = PyNone
           /\ \E i \in 1..Len(last'.log) : last'.log[i].level = "WARNING"
           /\ files' = files
           /\ dirs' = dirs]_vars

\* C7 witness: {} was saved into the directory that does not exist yet
C7_Witness ==
    /\ last.op = "save" /\ last.arg = PyDict(EmptyMap)
    /\ last.dir = "output/generated_data"
    /\ last.value = PyNone
    /\ dirs["output/generated_data"] = "absent"

\* C8: get_location_counts never fails: for every input it returns the three
\* counts, each the length of its entry and 0 when the key is absent.
C8_CountNeverFails ==
    (last.op = "count") => (last.status = "returned")

\* the length of a list, a tuple or a string
SizeOf(x) == IF x.t = "str" THEN Len(x.s) ELSE Len(x.items)
CountOf(key) == IF key \in DOMAIN last.arg.m THEN SizeOf(last.arg.m[key]) ELSE 0

\* C8 as amended: for every mapping whose entries under the three keys, where
\* present, are lists (or other values with a length), get_location_counts
\* returns the three counts, each the length of its entry and 0 when absent.
C8_CountOfSizedEntries ==
    (/\ last.op = "count"
     /\ last.arg.t = "dict"
     /\ \A key \in ThreeKeys \cap DOMAIN last.arg.m :
            last.arg.m[key].t \in {"list", "tuple", "str"})
        => /\ last.status = "returned"
           /\ last.value = PyDict(("num_logistics_centers" :> PyInt(CountOf(LC)))
                                  @@ ("num_sales_outlets" :> PyInt(CountOf(SO)))
                                  @@ ("num_customers" :> PyInt(CountOf(CU))))

\* C8 witness: a mapping with one key absent, one list of one element and one
\* list of two was counted
C8_Witness ==
    /\ last.op = "count" /\ last.status = "returned"
    /\ last.arg.t = "dict"
    /\ DOMAIN last.arg.m = {LC, CU}
    /\ last.value.m["num_logistics_centers"] = PyInt(1)
    /\ last.value.m["num_sales_outlets"] = PyInt(0)
    /\ last.value.m["num_customers"] = PyInt(2)

\* C9: validate_locations_structure never raises and returns true exactly when
\* the candidate is an object in which the three keys are present and hold
\* lists, whatever the lists hold.
C9_ValidateIsShapeCheck ==
    (last.op = "validate")
        => /\ last.status = "returned"
           /\ last.value = PyBool(/\ last.arg.t = "dict"
                                  /\ \A key \in ThreeKeys :
                                        /\ key \in DOMAIN last.arg.m
                                        /\ last.arg.m[key].t = "list")

\* C9 witness: a candidate whose logistics_centers holds no coordinates at all
\* was found valid
C9_Witness ==
    /\ last.op = "validate" /\ last.value = PyBool(TRUE)
    /\ last.arg.m[LC] = PyList(<<PyStr("x"), PyNone>>)
    /\ last.arg.m[SO] = PyList(<<>>)

\* C10: whenever a save returns None, the call has not created, truncated or
\* modified any file.
C10_NoPathMeansNothingWritten ==
    [][(last'.op = "save" /\ last'.status = "returned" /\ last'.value = PyNone)
        => files' = files]_vars

====
